---- MODULE Spec2Model ----
(***************************************************************************)
(* Model of arc-language/core-builder: the IR builder (builder/builder.go), *)
(* the CFG containers (ir/ir.go) and type equality (types/types.go).        *)
(*                                                                          *)
(* Heap objects are rows of tables: a *ir.Function is an index into funcs,  *)
(* a *ir.BasicBlock an index into blocks, an ir.Instruction an index into   *)
(* insts.  Nil is the nil pointer.  An instruction whose insert panicked is *)
(* never returned to the caller and is not kept in insts.                   *)
(***************************************************************************)
EXTENDS Integers, Sequences, FiniteSets, TLC

\* ------------------------------------------------------------------ bounds
\* Constructions (instructions and switch cases) a caller asks for, and names
\* the counter hands out, per specification
MaxInsts == 4
MaxCfgInsts == 2
MaxAllInsts == 1
MaxNamed == 2
\* Fields of a struct type
MaxFields == 2
\* Parameters of a function signature
MaxParams == 2
\* Operands of an instruction a caller renders
MaxOps == 1
\* Largest operand index a caller passes to SetOperand
MaxIndex == 3
\* Instructions, switch cases and incoming pairs built when persistence is exercised
MaxPersistNodes == 2
\* Global variables
MaxGlobals == 1
\* Instructions and switch cases built when the naming counter is watched
MaxCounterInsts == 2
\* Instructions plus incoming pairs built when phi nodes are exercised
MaxPhiNodes == 4

\* ------------------------------------------------------- program constants
Nil == 0
AppendMode == 0 - 1

Terminators == {"OpRet", "OpBr", "OpCondBr", "OpSwitch", "OpUnreachable"}

\* One opcode per result-producing constructor of the shape
\* "if name is empty, generateName; build; insert": createBinaryOp, CreateAlloca,
\* CreateLoad, CreateGEP, createCast, CreateICmp, CreateFCmp, CreatePhi,
\* CreateSelect, CreateExtractValue, CreateInsertValue.
NamedOps == {"OpAdd", "OpAlloca", "OpLoad", "OpGetElementPtr", "OpBitcast", "OpICmp",
             "OpFCmp", "OpPhi", "OpSelect", "OpExtractValue", "OpInsertValue"}

\* Names a caller passes; "" asks for an automatic name.
CallerNames == {"", "0"}

\* Names of the blocks and functions a caller creates, in the order it creates them
BlockNames == <<"entry", "merge">>
FuncNames == <<"f", "g">>
ModuleNames == <<"m">>

\* Case values a caller passes to AddCase
CaseValues == {7}

VARIABLES
  modules,       \* Module table: [Name, Functions]
  funcs,         \* Function table: [ValName, Parent, Blocks]
  blocks,        \* BasicBlock table: [Parent, Instructions, Predecessors, Successors]
  insts,         \* Instruction table: [Op, ValName, Parent_, Targets, Cases]
  module,        \* Builder.module
  currentFunc,   \* Builder.currentFunc
  currentBlock,  \* Builder.currentBlock
  insertPoint,   \* Builder.insertPoint
  nameCounter,   \* Builder.nameCounter
  last,          \* the most recent builder call and how it ended
  autoNames,     \* history: the names generateName has handed out, in order
  anchor,        \* history: the block as SetInsertPointBefore found it
  conventional,  \* history: the caller kept the terminator convention so far
  tyA, tyB,      \* operands of a Type.Equal call
  eqResult,      \* its result
  tyC,           \* a third type, for the Equal calls among three
  eqTable,       \* their results, by the pair of operands
  build,         \* which of the two instruction files of package ir is built
  node,          \* an instruction a caller holds
  text           \* the text String() returned for it ("" before the call)

builderVars == <<currentFunc, currentBlock, insertPoint, nameCounter>>
graphVars == <<funcs, blocks, insts>>
historyVars == <<last, autoNames, anchor, conventional>>
typeVars == <<tyA, tyB, eqResult, tyC, eqTable>>
renderVars == <<build, node, text>>
moduleVars == <<modules, module>>
vars == <<modules, module, funcs, blocks, insts, currentFunc, currentBlock, insertPoint,
          nameCounter, last, autoNames, anchor, conventional, tyA, tyB, eqResult,
          tyC, eqTable,
          build, node, text>>

\* --------------------------------------------------------------- helpers
Range(s) == {s[i] : i \in DOMAIN s}

Count(x, s) == Cardinality({i \in DOMAIN s : s[i] = x})

BlockIds == DOMAIN blocks
FuncIds == DOMAIN funcs
InstIds == DOMAIN insts

Digit == <<"0", "1", "2", "3", "4", "5", "6", "7", "8", "9">>

\* fmt.Sprintf("%d", n) for n >= 0
RECURSIVE Decimal(_)
Decimal(n) == IF n < 10 THEN Digit[n + 1]
              ELSE Decimal(n \div 10) \o Digit[(n % 10) + 1]

\* ------------------------------------------------------------ ir package
\* A classification that leaves unreachable out of the terminator set
IsTerminatorWithoutUnreachable(op) == op \in {"OpRet", "OpBr", "OpCondBr", "OpSwitch"}

\* BaseInstruction.IsTerminator
IsTerminator(op) ==
  CASE op = "OpRet" -> TRUE
    [] op = "OpBr" -> TRUE
    [] op = "OpCondBr" -> TRUE
    [] op = "OpSwitch" -> TRUE
    [] op = "OpUnreachable" -> TRUE
    [] OTHER -> FALSE

\* BasicBlock.Terminator over the instruction sequence s of a block
TerminatorOf(s) ==
  IF Len(s) = 0 THEN Nil
  ELSE LET lastInst == s[Len(s)]
       IN IF IsTerminator(insts[lastInst].Op) THEN lastInst ELSE Nil

Terminator(b) == TerminatorOf(blocks[b].Instructions)

\* ir.NewBasicBlock, with the Parent the caller then assigns
NewBasicBlock(name, parent) ==
  [ValName |-> name, Parent |-> parent, Instructions |-> <<>>, Predecessors |-> <<>>, Successors |-> <<>>]

\* ir.NewModule
NewModule(name) ==
  [Name |-> name, Functions |-> <<>>, Globals |-> <<>>, Types |-> <<>>,
   DataLayout |-> "", TargetTriple |-> ""]

\* m.Types[name] = typ, Types a map from names to struct types
SetType(ms, m, name, typ) == [ms EXCEPT ![m].Types = (name :> typ) @@ @]

\* Module.AddGlobal: m.Globals = append(m.Globals, g)
AddGlobal(ms, m, g) == [ms EXCEPT ![m].Globals = Append(@, g)]

\* Module.AddFunction: m.Functions = append(m.Functions, f)
AddFunction(ms, m, f) == [ms EXCEPT ![m].Functions = Append(@, f)]

\* A function that takes ownership without listing the block
AddBlockUnlisted(fs, f, b) == fs

\* Function.AddBlock: f.Blocks = append(f.Blocks, b)
AddBlock(fs, f, b) == [fs EXCEPT ![f].Blocks = Append(@, b)]

\* BasicBlock.AddInstruction: b.Instructions = append(b.Instructions, inst)
AddInstruction(bl, b, id) == [bl EXCEPT ![b].Instructions = Append(@, id)]

\* An insertion that leaves the instruction's parent as it was
ParentNotSet(r, b) == r

\* BaseInstruction.SetParent
SetParent(r, b) == [r EXCEPT !.Parent_ = b]

\* An instruction object as its constructor leaves it
NewInst(op, name, parent, targets) ==
  [Op |-> op, ValName |-> name, Parent_ |-> parent, Targets |-> targets, Cases |-> <<>>]

\* ------------------------------------------------------------ the builder
\* Builder.insert: the nil check
InsertPanics(cb) == cb = Nil

\* A positional insert that writes over the instruction at the cursor
InsertSeqOverwriting(s, ip, id) ==
  IF ip < Len(s) THEN [s EXCEPT ![ip + 1] = id] ELSE Append(s, id)

\* A builder that inserts after the instruction the cursor points at
InsertSeqAfter(s, ip, id) ==
  SubSeq(s, 1, ip + 1) \o <<id>> \o SubSeq(s, ip + 2, Len(s))

\* Builder.insert, positional branch: the new slice
InsertSeq(s, ip, id) == SubSeq(s, 1, ip) \o <<id>> \o SubSeq(s, ip + 1, Len(s))

\* A builder whose insert leaves the cursor where it was
AdvanceCursorForgotten(ip) == ip

\* Builder.insert, positional branch: b.insertPoint++
AdvanceCursor(ip) == ip + 1

\* A constructor that updates the CFG before it calls insert
UpdatedBeforeInsert(before, updated) == updated

\* insert's panic leaves the constructor before the statements after b.insert
\* (the CFG update) run: the block table stays as it was
Unwound(before, updated) == before

\* Builder.insert: the block table after inserting instruction id
InsertedBlocks(bl, cb, ip, id) ==
  IF ip < 0 THEN AddInstruction(bl, cb, id)
  ELSE [bl EXCEPT ![cb].Instructions = InsertSeq(@, ip, id)]

\* Builder.insert: the cursor after inserting
CursorAfterInsert(ip) == IF ip < 0 THEN ip ELSE AdvanceCursor(ip)

\* A builder that records the successor and forgets the predecessor
AddEdgeSuccessorOnly(bl, S, T) == [bl EXCEPT ![S].Successors = Append(@, T)]

\* A builder that collapses duplicate edges
AddEdgeDeduplicated(bl, S, T) ==
  IF \E k \in DOMAIN bl[S].Successors : bl[S].Successors[k] = T THEN bl
  ELSE LET withSucc == [bl EXCEPT ![S].Successors = Append(@, T)]
       IN [withSucc EXCEPT ![T].Predecessors = Append(@, S)]

\* "Update CFG": S.Successors = append(.., T); T.Predecessors = append(.., S)
AddEdge(bl, S, T) ==
  LET withSucc == [bl EXCEPT ![S].Successors = Append(@, T)]
  IN [withSucc EXCEPT ![T].Predecessors = Append(@, S)]

\* A CreateCondBr that forgets the predecessor entry of the false block
AddCondEdgesTrueOnly(bl, S, T, F) ==
  LET withSucc == [bl EXCEPT ![S].Successors = @ \o <<T, F>>]
  IN [withSucc EXCEPT ![T].Predecessors = Append(@, S)]

\* CreateCondBr's CFG update: both successors in one append, then each predecessor
AddCondEdges(bl, S, T, F) ==
  LET withSucc == [bl EXCEPT ![S].Successors = @ \o <<T, F>>]
      withT == [withSucc EXCEPT ![T].Predecessors = Append(@, S)]
  IN [withT EXCEPT ![F].Predecessors = Append(@, S)]

\* An AddCase that takes the builder's current block for the switch's block
CaseOwnerCurrent(parent, cb) == cb

\* AddCase: parent := sw.Parent(), whatever the current block cb
CaseOwner(parent, cb) == parent

\* An AddCase that records the case and leaves the adjacency lists alone
CaseEdgeForgotten(bl, parent, blk) == bl

\* AddCase's CFG update: if parent != nil { ... }
CaseEdge(bl, parent, blk) == IF parent # Nil THEN AddEdge(bl, parent, blk) ELSE bl

\* The "Update CFG" statements that follow b.insert(inst) in the constructor of
\* instruction r, with current block S: CreateBr, CreateCondBr and CreateSwitch
\* have them, the other constructors have none
UpdateCFG(bl, S, r) ==
  CASE r.Op = "OpBr" -> AddEdge(bl, S, r.Targets[1])
    [] r.Op = "OpCondBr" -> AddCondEdges(bl, S, r.Targets[1], r.Targets[2])
    [] r.Op = "OpSwitch" -> AddEdge(bl, S, r.Targets[1])
    [] OTHER -> bl

\* A SetInsertPoint that leaves the current function as it was
FuncKept(cf, parent) == cf

\* Builder.SetInsertPoint: b.currentFunc = block.Parent
FuncAfterSetInsertPoint(cf, parent) == parent

\* A SetInsertPoint that leaves the cursor index as it was
CursorKept(ip) == ip

\* Builder.SetInsertPoint: b.insertPoint = -1
CursorAfterSetInsertPoint(ip) == AppendMode

\* A SetInsertPointBefore that points the cursor past the instruction
CursorPast(s, inst, ip) ==
  IF \E i \in DOMAIN s : s[i] = inst
  THEN CHOOSE i \in DOMAIN s : s[i] = inst /\ \A j \in 1..(i - 1) : s[j] # inst
  ELSE ip

\* Builder.SetInsertPointBefore: index of inst in s, or the cursor unchanged
CursorBefore(s, inst, ip) ==
  IF \E i \in DOMAIN s : s[i] = inst
  THEN (CHOOSE i \in DOMAIN s : s[i] = inst /\ \A j \in 1..(i - 1) : s[j] # inst) - 1
  ELSE ip

\* Builder.generateName: the name returned
GeneratedName(counter) == Decimal(counter)

\* A generateName that forgets b.nameCounter++
CounterNotAdvanced(counter) == counter

\* Builder.generateName: b.nameCounter++
CounterAfterGenerate(counter) == counter + 1

\* A constructor that names every result from the counter
NeedsNameAlways(name) == TRUE

\* "if name == "" { name = b.generateName() }"
NeedsName(name) == name = ""

\* ---------------------------------------------------------- types package
VoidT == [Kind |-> "VoidKind"]
LabelT == [Kind |-> "LabelKind"]
NewInt(bits, signed) == [Kind |-> "IntegerKind", BitWidth |-> bits, Signed |-> signed]
NewFloat(bits) == [Kind |-> "FloatKind", BitWidth |-> bits]
NewPointerWithAddressSpace(elem, addrSpace) ==
  [Kind |-> "PointerKind", ElementType |-> elem, AddressSpace |-> addrSpace]
NewArray(elem, length) == [Kind |-> "ArrayKind", ElementType |-> elem, Length |-> length]
NewStruct(name, fields, packed) ==
  [Kind |-> "StructKind", Name |-> name, Fields |-> fields, Packed |-> packed]
NewFunctionType(ret, params, variadic) ==
  [Kind |-> "FunctionKind", ReturnType |-> ret, ParamTypes |-> params,
   Variadic |-> variadic]
NewVector(elem, length, scalable) ==
  [Kind |-> "VectorKind", ElementType |-> elem, Length |-> length,
   Scalable |-> scalable]

\* An IntType.Equal that compares widths only
SameWidth(t, o) == t.BitWidth = o.BitWidth

\* IntType.Equal: t.BitWidth == ot.BitWidth && t.Signed == ot.Signed
SameInt(t, o) == t.BitWidth = o.BitWidth /\ t.Signed = o.Signed

\* A StructType.Equal that always compares field by field
NeverByName(t, o) == FALSE

\* StructType.Equal: t.Name != "" && ot.Name != ""
BothNamed(t, o) == t.Name # "" /\ o.Name # ""

\* Type.Equal, per variant
RECURSIVE Equal(_, _)
Equal(t, o) ==
  CASE t.Kind = "VoidKind" -> o.Kind = "VoidKind"
    [] t.Kind = "LabelKind" -> o.Kind = "LabelKind"
    [] t.Kind = "IntegerKind" ->
         o.Kind = "IntegerKind" /\ SameInt(t, o)
    [] t.Kind = "FloatKind" -> o.Kind = "FloatKind" /\ t.BitWidth = o.BitWidth
    [] t.Kind = "PointerKind" ->
         /\ o.Kind = "PointerKind"
         /\ Equal(t.ElementType, o.ElementType)
         /\ t.AddressSpace = o.AddressSpace
    [] t.Kind = "ArrayKind" ->
         /\ o.Kind = "ArrayKind"
         /\ t.Length = o.Length
         /\ Equal(t.ElementType, o.ElementType)
    [] t.Kind = "StructKind" ->
         /\ o.Kind = "StructKind"
         /\ IF BothNamed(t, o) THEN t.Name = o.Name
            ELSE /\ Len(t.Fields) = Len(o.Fields)
                 /\ \A i \in DOMAIN t.Fields : Equal(t.Fields[i], o.Fields[i])
                 /\ t.Packed = o.Packed
    [] t.Kind = "FunctionKind" ->
         /\ o.Kind = "FunctionKind"
         /\ Equal(t.ReturnType, o.ReturnType)
         /\ t.Variadic = o.Variadic
         /\ Len(t.ParamTypes) = Len(o.ParamTypes)
         /\ \A i \in DOMAIN t.ParamTypes : Equal(t.ParamTypes[i], o.ParamTypes[i])
    [] t.Kind = "VectorKind" ->
         /\ o.Kind = "VectorKind"
         /\ t.Length = o.Length
         /\ t.Scalable = o.Scalable
         /\ Equal(t.ElementType, o.ElementType)

\* The types a caller builds
I32 == NewInt(32, TRUE)
U32 == NewInt(32, FALSE)
I64 == NewInt(64, TRUE)
F64 == NewFloat(64)
ScalarTypes == {VoidT, LabelT, I32, U32, I64, F64}
FieldTypes == {I32, F64}
StructNames == {"", "Point", "Q"}

SeqsUpTo(S, n) == UNION {[1..k -> S] : k \in 0..n}

StructTypes ==
  {NewStruct(name, fields, packed) :
     name \in StructNames, fields \in SeqsUpTo(FieldTypes, MaxFields), packed \in BOOLEAN}

\* Element types of composites: scalars and one level of nesting
ElementTypes == FieldTypes \cup {NewPointerWithAddressSpace(I32, 0), NewArray(F64, 2)}

CompositeTypes ==
  {NewPointerWithAddressSpace(e, a) : e \in ElementTypes, a \in {0, 1}}
    \cup {NewArray(e, n) : e \in ElementTypes, n \in {2, 3}}
    \cup {NewVector(e, n, sc) : e \in FieldTypes, n \in {2, 4}, sc \in BOOLEAN}
    \cup {NewFunctionType(r, ps, v) :
            r \in {VoidT, I32, NewPointerWithAddressSpace(I32, 0)},
            ps \in SeqsUpTo(ElementTypes, 1), v \in BOOLEAN}

TypeSet == ScalarTypes \cup CompositeTypes \cup StructTypes

\* Signatures a caller passes to CreateFunction and DeclareFunction
Signatures ==
  {NewFunctionType(I32, ps, FALSE) : ps \in SeqsUpTo(FieldTypes, MaxParams)}

\* --------------------------------------------------- ir package: functions
\* A NewFunction that numbers the arguments from one
NewArgumentsFromOne(fnType, f) ==
  [i \in DOMAIN fnType.ParamTypes |->
     [Variant |-> "Argument", ValName |-> "", ValType |-> fnType.ParamTypes[i],
      Index |-> i, Parent |-> f]]

\* ir.NewFunction: the "Create arguments" loop; Go indexes from 0
NewArguments(fnType, f) ==
  [i \in DOMAIN fnType.ParamTypes |->
     [Variant |-> "Argument", ValName |-> "", ValType |-> fnType.ParamTypes[i],
      Index |-> i - 1, Parent |-> f]]

\* ir.NewFunction(name, fnType), f the new function itself; the zero Linkage is
\* ExternalLinkage
NewFunction(name, fnType, f) ==
  [ValName |-> name, ValType |-> fnType, FuncType |-> fnType, Parent |-> Nil,
   Blocks |-> <<>>, Arguments |-> NewArguments(fnType, f),
   Linkage |-> "ExternalLinkage", Attributes |-> <<>>]

\* ------------------------------------------------ types package: String
\* strings.Join(ss, sep)
RECURSIVE JoinStrings(_, _)
JoinStrings(ss, sep) ==
  IF Len(ss) = 0 THEN ""
  ELSE IF Len(ss) = 1 THEN ss[1]
  ELSE ss[1] \o sep \o JoinStrings(Tail(ss), sep)

\* fmt's %d
IntText(n) == IF n < 0 THEN "-" \o Decimal(0 - n) ELSE Decimal(n)

\* Type.String, per variant
RECURSIVE TypeString(_)
TypeString(t) ==
  CASE t.Kind = "VoidKind" -> "void"
    [] t.Kind = "LabelKind" -> "label"
    [] t.Kind = "IntegerKind" -> (IF t.Signed THEN "i" ELSE "u") \o IntText(t.BitWidth)
    [] t.Kind = "FloatKind" -> "f" \o IntText(t.BitWidth)
    [] t.Kind = "PointerKind" ->
         IF t.AddressSpace # 0
         THEN "ptr<" \o TypeString(t.ElementType) \o ", " \o IntText(t.AddressSpace) \o ">"
         ELSE "ptr<" \o TypeString(t.ElementType) \o ">"
    [] t.Kind = "ArrayKind" ->
         "[" \o IntText(t.Length) \o " x " \o TypeString(t.ElementType) \o "]"
    [] t.Kind = "StructKind" ->
         IF t.Name # "" THEN "%" \o t.Name
         ELSE LET fields == [i \in DOMAIN t.Fields |-> TypeString(t.Fields[i])]
              IN (IF t.Packed THEN "<{ " ELSE "{ ") \o JoinStrings(fields, ", ")
                   \o (IF t.Packed THEN " }>" ELSE " }")
    [] t.Kind = "FunctionKind" ->
         LET params == [i \in DOMAIN t.ParamTypes |-> TypeString(t.ParamTypes[i])]
             all == IF t.Variadic THEN Append(params, "...") ELSE params
         IN "fn(" \o JoinStrings(all, ", ") \o ") -> " \o TypeString(t.ReturnType)
    [] t.Kind = "VectorKind" ->
         IF t.Scalable
         THEN "<vscale x " \o IntText(t.Length) \o " x " \o TypeString(t.ElementType) \o ">"
         ELSE "<" \o IntText(t.Length) \o " x " \o TypeString(t.ElementType) \o ">"

\* ----------------------------------------------- ir package: values, text
\* A nil types.Type and a nil Value
NilType == [Kind |-> "nil"]
NilValue == [Variant |-> "nil"]

\* Values a caller passes as operands.  A float constant is kept in tenths.
ConstInt(typ, val) ==
  [Variant |-> "ConstantInt", ValName |-> "", ValType |-> typ, Value |-> val]
ConstFloat(typ, tenths) ==
  [Variant |-> "ConstantFloat", ValName |-> "", ValType |-> typ, Value |-> tenths]
ConstNull(ptrType) == [Variant |-> "ConstantNull", ValName |-> "", ValType |-> ptrType]
ConstUndef(typ) == [Variant |-> "ConstantUndef", ValName |-> "", ValType |-> typ]
ConstZero(typ) == [Variant |-> "ConstantZero", ValName |-> "", ValType |-> typ]
ConstantArray(typ, elems) ==
  [Variant |-> "ConstantArray", ValName |-> "", ValType |-> typ, Elements |-> elems]
ConstantStruct(typ, fields) ==
  [Variant |-> "ConstantStruct", ValName |-> "", ValType |-> typ, Fields |-> fields]
Global(name, typ) ==
  [Variant |-> "Global", ValName |-> name, ValType |-> typ, Initializer |-> NilValue,
   IsConstant |-> FALSE, Linkage |-> "ExternalLinkage"]
Result(name, typ) == [Variant |-> "Instruction", ValName |-> name, ValType |-> typ]

\* The variants that implement ir.Constant
ConstantVariants ==
  {"ConstantInt", "ConstantFloat", "ConstantNull", "ConstantUndef", "ConstantZero",
   "ConstantArray", "ConstantStruct"}

\* fmt's %g of a value with at most one decimal digit
FloatText(tenths) ==
  LET a == IF tenths < 0 THEN 0 - tenths ELSE tenths
      whole == Decimal(a \div 10)
  IN (IF tenths < 0 THEN "-" ELSE "")
       \o (IF a % 10 = 0 THEN whole ELSE whole \o "." \o Decimal(a % 10))

\* Constant.String is "<type> <literal>"; the literal, per variant
RECURSIVE Literal(_)
Literal(c) ==
  CASE c.Variant = "ConstantInt" -> IntText(c.Value)
    [] c.Variant = "ConstantFloat" -> FloatText(c.Value)
    [] c.Variant = "ConstantNull" -> "null"
    [] c.Variant = "ConstantUndef" -> "undef"
    [] c.Variant = "ConstantZero" -> "zeroinitializer"
    [] c.Variant = "ConstantArray" ->
         "[" \o JoinStrings([k \in DOMAIN c.Elements |->
                               TypeString(c.Elements[k].ValType) \o " "
                                 \o Literal(c.Elements[k])], ", ") \o "]"
    [] c.Variant = "ConstantStruct" ->
         "{ " \o JoinStrings([k \in DOMAIN c.Fields |->
                                TypeString(c.Fields[k].ValType) \o " "
                                  \o Literal(c.Fields[k])], ", ") \o " }"

\* formatOp of the instruction file that has it
formatOp(v) ==
  IF v = NilValue THEN "void"
  ELSE CASE v.Variant = "ConstantInt" -> IntText(v.Value)
         [] v.Variant = "ConstantFloat" -> FloatText(v.Value)
         [] v.Variant = "ConstantNull" -> "null"
         [] v.Variant = "ConstantUndef" -> "undef"
         [] v.Variant = "Argument" ->
              IF v.ValName # "" THEN "%" \o v.ValName ELSE "%" \o IntText(v.Index)
         [] OTHER -> IF v.ValName = "" THEN "%<unnamed>" ELSE "%" \o v.ValName

\* The other instruction file writes every operand as "%" + Name()
NameOp(v) == "%" \o v.ValName

\* An operand as the build at hand writes it
OperandText(b, v) == IF b = "part_000" THEN formatOp(v) ELSE NameOp(v)

\* The two instruction files of package ir, of which a build holds one
Builds == {"part_000", "part_001"}

\* A CallInst.String that takes only an absent result type for void
OnlyAbsent(t) == t = NilType

\* CallInst.String: i.ValType == nil || i.ValType.Kind() == types.VoidKind
IsVoidResult(t) == t = NilType \/ t.Kind = "VoidKind"

\* CallInst.String: the arguments, nil operands skipped
CallArgs(b, i) ==
  LET kept == SelectSeq(i.Ops, LAMBDA arg : arg # NilValue)
  IN [k \in DOMAIN kept |-> TypeString(kept[k].ValType) \o " " \o OperandText(b, kept[k])]

\* CallInst.String
CallString(b, i) ==
  LET tail == IF i.IsTailCall THEN "tail " ELSE ""
      calleeName == IF i.Callee # NilValue THEN i.Callee.ValName ELSE i.CalleeName
      args == JoinStrings(CallArgs(b, i), ", ")
  IN IF IsVoidResult(i.ValType)
     THEN tail \o "call void @" \o calleeName \o "(" \o args \o ")"
     ELSE "%" \o i.ValName \o " = " \o tail \o "call " \o TypeString(i.ValType)
            \o " @" \o calleeName \o "(" \o args \o ")"

\* Opcode.String
OpcodeName(op) == CASE op = "OpAdd" -> "add"

\* BinaryInst.String
BinaryString(b, i) ==
  LET flags == (IF i.NoUnsignedWrap THEN " nuw" ELSE "")
                 \o (IF i.NoSignedWrap THEN " nsw" ELSE "")
                 \o (IF i.Exact THEN " exact" ELSE "")
      lhs == i.Ops[1]
      rhs == i.Ops[2]
  IN "%" \o i.ValName \o " = " \o OpcodeName(i.Op) \o flags \o " "
       \o TypeString(lhs.ValType) \o " " \o OperandText(b, lhs) \o ", "
       \o OperandText(b, rhs)

\* A phi that keeps one entry per (value, block) pair
AppendIncomingOnce(inc, v, b) ==
  IF \E k \in DOMAIN inc : inc[k] = [Value |-> v, Block |-> b]
  THEN inc
  ELSE Append(inc, [Value |-> v, Block |-> b])

\* PhiInst.AddIncoming: append(i.Incoming, PhiIncoming{Value: v, Block: b})
AppendIncoming(inc, v, b) == Append(inc, [Value |-> v, Block |-> b])

\* A PhiInst as CreatePhi builds it
PhiInst(name, typ) ==
  NewInst("OpPhi", name, Nil, <<>>) @@ [ValType |-> typ, Incoming |-> <<>>]

\* PhiInst.String; an incoming block is written by its name
PhiString(b, i) ==
  LET incomings == [k \in DOMAIN i.Incoming |->
                      "[ " \o OperandText(b, i.Incoming[k].Value) \o ", %"
                        \o blocks[i.Incoming[k].Block].ValName \o " ]"]
  IN "%" \o i.ValName \o " = phi " \o TypeString(i.ValType) \o " "
       \o JoinStrings(incomings, ", ")

\* Instruction.String
InstString(b, i) ==
  CASE i.Op = "OpCall" -> CallString(b, i)
    [] i.Op = "OpPhi" -> PhiString(b, i)
    [] i.Op = "OpAdd" -> BinaryString(b, i)

\* A SetOperand that stores past the end without the padding
StoreAtEnd(ops, idx, v) ==
  IF Len(ops) <= idx THEN Append(ops, v) ELSE [ops EXCEPT ![idx + 1] = v]

\* SetOperand's loop: append nil while len(i.Ops) <= idx
RECURSIVE Grow(_, _)
Grow(ops, idx) == IF Len(ops) <= idx THEN Grow(Append(ops, NilValue), idx) ELSE ops

\* BaseInstruction.SetOperand on the operand slice (positions from 0)
StoreOperand(ops, idx, v) == [Grow(ops, idx) EXCEPT ![idx + 1] = v]

\* Operands a caller holds
OperandValues ==
  {ConstInt(I32, 2), ConstFloat(F64, 35), ConstNull(NewPointerWithAddressSpace(I32, 0)),
   ConstUndef(I32), ConstZero(NewStruct("Point", <<I32, I32>>, FALSE)),
   ConstantArray(NewArray(I32, 2), <<ConstInt(I32, 1), ConstInt(I32, 2)>>),
   ConstantStruct(NewStruct("", <<I32>>, FALSE), <<ConstInt(I32, 7)>>),
   NewArguments(NewFunctionType(I32, <<I32>>, FALSE), 1)[1],
   Global("g", NewPointerWithAddressSpace(I32, 0)), Result("x", I32)}

\* Call instructions a caller holds
CallInsts ==
  {[Op |-> "OpCall", ValName |-> name, ValType |-> typ, Ops |-> ops, Callee |-> callee,
    CalleeName |-> "f", IsTailCall |-> isTail] :
     name \in {"", "r"}, typ \in {NilType, VoidT, I32},
     ops \in SeqsUpTo(OperandValues \cup {NilValue}, MaxOps),
     callee \in {NilValue, NewFunction("g", NewFunctionType(VoidT, <<>>, FALSE), 1)},
     isTail \in BOOLEAN}

\* Binary instructions a caller holds, typed as createBinaryOp types them
BinaryInsts ==
  {[Op |-> "OpAdd", ValName |-> "s", ValType |-> lhs.ValType, Ops |-> <<lhs, rhs>>,
    NoSignedWrap |-> nsw, NoUnsignedWrap |-> FALSE, Exact |-> FALSE] :
     lhs \in OperandValues, rhs \in OperandValues, nsw \in BOOLEAN}

RenderNodes == CallInsts \cup BinaryInsts

\* Values a caller passes to SetOperand
StoredValues == {ConstInt(I32, 2), Result("x", I32), NilValue}

\* Instructions a caller sets operands of
BareInsts ==
  {[Op |-> "OpAdd", ValName |-> "s", ValType |-> I32, Ops |-> ops] :
     ops \in SeqsUpTo(StoredValues, 1)}

\* ------------------------------------------ ir package: container text
\* Linkage.String
LinkageString(l) ==
  CASE l = "ExternalLinkage" -> "external"
    [] l = "InternalLinkage" -> "internal"
    [] l = "PrivateLinkage" -> "private"
    [] l = "LinkOnceODRLinkage" -> "linkonce_odr"
    [] l = "WeakODRLinkage" -> "weak_odr"
    [] l = "CommonLinkage" -> "common"
    [] OTHER -> "external"

\* Function.String: the keyword of an attribute
AttrString(attr) ==
  CASE attr = "AttrNoReturn" -> "noreturn"
    [] attr = "AttrNoUnwind" -> "nounwind"
    [] attr = "AttrReadOnly" -> "readonly"
    [] attr = "AttrReadNone" -> "readnone"
    [] attr = "AttrAlwaysInline" -> "alwaysinline"
    [] attr = "AttrNoInline" -> "noinline"
    [] OTHER -> ""

\* The strings of ss written one after another, each after prefix pre and
\* before suffix post
RECURSIVE WriteEach(_, _, _)
WriteEach(ss, pre, post) ==
  IF ss = <<>> THEN "" ELSE pre \o Head(ss) \o post \o WriteEach(Tail(ss), pre, post)

\* Argument.String
ArgumentString(a) ==
  IF a.ValName # "" THEN TypeString(a.ValType) \o " %" \o a.ValName
  ELSE TypeString(a.ValType) \o " %" \o IntText(a.Index)

\* Function.String: one element of args
HeaderArg(arg) ==
  IF arg.ValName # "" THEN TypeString(arg.ValType) \o " %" \o arg.ValName
  ELSE TypeString(arg.ValType)

\* BasicBlock.String of block b of the graph
BlockString(b) ==
  blocks[b].ValName \o ":\n"
    \o WriteEach([k \in DOMAIN blocks[b].Instructions |->
                    InstString(build, insts[blocks[b].Instructions[k]])], "  ", "\n")

\* Function.String of function row fn
FunctionString(fn) ==
  LET args == [i \in DOMAIN fn.Arguments |-> HeaderArg(fn.Arguments[i])]
  IN (IF Len(fn.Blocks) = 0 THEN "declare " ELSE "define ")
       \o LinkageString(fn.Linkage) \o " " \o TypeString(fn.FuncType.ReturnType)
       \o " @" \o fn.ValName \o "(" \o JoinStrings(args, ", ")
       \o (IF fn.FuncType.Variadic
           THEN (IF Len(args) > 0 THEN ", " ELSE "") \o "..."
           ELSE "")
       \o ")"
       \o WriteEach([k \in DOMAIN fn.Attributes |-> AttrString(fn.Attributes[k])], " ", "")
       \o (IF Len(fn.Blocks) > 0
           THEN " {\n" \o WriteEach([k \in DOMAIN fn.Blocks |-> BlockString(fn.Blocks[k])],
                                     "", "") \o "}"
           ELSE "")

\* Global.String
GlobalString(g) ==
  JoinStrings(<<"@" \o g.ValName \o " =", LinkageString(g.Linkage),
                IF g.IsConstant THEN "constant" ELSE "global",
                IF g.Initializer # NilValue
                THEN TypeString(g.Initializer.ValType) \o " " \o Literal(g.Initializer)
                ELSE TypeString(g.ValType)>>, " ")

\* The orders in which a range over a map with key set S can visit its keys:
\* Go leaves the iteration order of a map unspecified
RangeOrders(S) ==
  {o \in [1..Cardinality(S) -> S] : \A i, j \in 1..Cardinality(S) : o[i] = o[j] => i = j}

\* Module.String: "for name, typ := range m.Types"
TypeOrders(S) == RangeOrders(S)

\* Module.String of module row mod, the named types visited in order o
ModuleString(mod, o) ==
  (IF mod.DataLayout # "" THEN "target datalayout = \"" \o mod.DataLayout \o "\"\n" ELSE "")
    \o (IF mod.TargetTriple # "" THEN "target triple = \"" \o mod.TargetTriple \o "\"\n"
        ELSE "")
    \o (IF mod.DataLayout # "" \/ mod.TargetTriple # "" THEN "\n" ELSE "")
    \o WriteEach([k \in DOMAIN o |->
                    "%" \o o[k] \o " = type " \o TypeString(mod.Types[o[k]])], "", "\n")
    \o (IF DOMAIN mod.Types # {} THEN "\n" ELSE "")
    \o WriteEach([k \in DOMAIN mod.Globals |-> GlobalString(mod.Globals[k])], "", "\n")
    \o (IF Len(mod.Globals) > 0 THEN "\n" ELSE "")
    \o JoinStrings([k \in DOMAIN mod.Functions |->
                      FunctionString(funcs[mod.Functions[k]]) \o "\n"], "\n")

\* ------------------------------------------------------------------ Init
NoAnchor == [X |-> Nil, B |-> Nil, old |-> <<>>, issued |-> <<>>]

\* builder.New(): no module, no function, no block, insertPoint -1, counter 0
InitBuilder ==
  /\ modules = <<>>
  /\ module = Nil
  /\ funcs = <<>>
  /\ blocks = <<>>
  /\ insts = <<>>
  /\ currentFunc = Nil
  /\ currentBlock = Nil
  /\ insertPoint = AppendMode
  /\ nameCounter = 0
  /\ last = [op |-> "New", panic |-> FALSE, moved |-> FALSE, name |-> ""]
  /\ autoNames = <<>>
  /\ anchor = NoAnchor
  /\ conventional = TRUE

\* The Equal calls among three types a, b, c, by receiver and argument
Pairs == {"aa", "ab", "ba", "bc", "ac"}

\* No call made yet
NoResults == [p \in Pairs |-> "none"]

\* No instruction held for rendering
NoRender ==
  /\ build = "part_000"
  /\ node = NilValue
  /\ text = ""

Init ==
  /\ InitBuilder
  /\ tyA = VoidT
  /\ tyB = VoidT
  /\ eqResult = "none"
  /\ tyC = VoidT
  /\ eqTable = NoResults
  /\ NoRender

\* ------------------------------------------------------- cursor, factories
\* last: the call, whether it panicked, whether it changed Builder.currentBlock,
\* and the result name the caller passed (if the call takes one)
Returned(op) == last' = [op |-> op, panic |-> FALSE, moved |-> FALSE, name |-> ""]
Moved(op, to) ==
  last' = [op |-> op, panic |-> FALSE, moved |-> to # currentBlock, name |-> ""]
Ended(op, panicked, name) ==
  last' = [op |-> op, panic |-> panicked, moved |-> FALSE, name |-> name]

\* Builder.SetInsertPoint(block)
SetInsertPoint(b) ==
  /\ currentBlock' = b
  /\ currentFunc' = FuncAfterSetInsertPoint(currentFunc, blocks[b].Parent)
  /\ insertPoint' = CursorAfterSetInsertPoint(insertPoint)
  /\ anchor' = NoAnchor
  /\ Moved("SetInsertPoint", b)
  /\ UNCHANGED <<graphVars, moduleVars, nameCounter, autoNames, conventional,
                 typeVars, renderVars>>

\* Builder.SetInsertPointBefore(inst), inst an instruction a constructor returned
SetInsertPointBefore(x) ==
  LET parent == insts[x].Parent_
  IN /\ currentBlock' = parent
     /\ insertPoint' = CursorBefore(blocks[parent].Instructions, x, insertPoint)
     /\ anchor' = [X |-> x, B |-> parent, old |-> blocks[parent].Instructions,
                   issued |-> <<>>]
     /\ Moved("SetInsertPointBefore", parent)
     /\ UNCHANGED <<graphVars, moduleVars, currentFunc, nameCounter, autoNames,
                    conventional, typeVars, renderVars>>

\* Builder.CreateModule(name)
CreateModule(name) ==
  /\ modules' = Append(modules, NewModule(name))
  /\ module' = Len(modules) + 1
  /\ Returned("CreateModule")
  /\ UNCHANGED <<graphVars, builderVars, autoNames, anchor, conventional, typeVars, renderVars>>

\* Builder.CreateFunction(name, retType, params, variadic), fnType the
\* types.NewFunction(retType, params, variadic) it builds first
CreateFunction(name, fnType) ==
  LET fn == Len(funcs) + 1
  IN /\ funcs' = Append(funcs, [NewFunction(name, fnType, fn) EXCEPT !.Parent = module])
     /\ modules' = IF module # Nil THEN AddFunction(modules, module, fn) ELSE modules
     /\ currentFunc' = fn
     /\ Returned("CreateFunction")
     /\ UNCHANGED <<module, blocks, insts, currentBlock, insertPoint, nameCounter,
                    autoNames, anchor, conventional, typeVars, renderVars>>

\* A DeclareFunction that makes the declared function current
DeclaredIsCurrent(cf, fn) == fn

\* DeclareFunction has no "b.currentFunc = fn"
FuncAfterDeclare(cf, fn) == cf

\* Builder.DeclareFunction(name, retType, params, variadic)
DeclareFunction(name, fnType) ==
  LET fn == Len(funcs) + 1
  IN /\ funcs' = Append(funcs, [NewFunction(name, fnType, fn) EXCEPT
                                  !.Linkage = "ExternalLinkage", !.Parent = module])
     /\ modules' = IF module # Nil THEN AddFunction(modules, module, fn) ELSE modules
     /\ currentFunc' = FuncAfterDeclare(currentFunc, fn)
     /\ Returned("DeclareFunction")
     /\ UNCHANGED <<module, blocks, insts, currentBlock, insertPoint, nameCounter,
                    autoNames, anchor, conventional, typeVars, renderVars>>

\* Argument.SetName on argument k of function f (BaseValue.SetName)
SetArgName(f, k, name) ==
  /\ funcs' = [funcs EXCEPT ![f].Arguments[k].ValName = name]
  /\ Returned("SetName")
  /\ UNCHANGED <<blocks, insts, moduleVars, builderVars, autoNames, anchor, conventional,
                 typeVars, renderVars>>

\* String() of a function of the graph
FunctionStringOf(f) ==
  /\ node' = [Variant |-> "Function", Fn |-> funcs[f],
              Body |-> [k \in DOMAIN funcs[f].Blocks |-> BlockString(funcs[f].Blocks[k])]]
  /\ text' = FunctionString(funcs[f])
  /\ Returned("String")
  /\ UNCHANGED <<moduleVars, graphVars, builderVars, autoNames, anchor, conventional,
                 typeVars, build>>

\* mod.Types[name] = structTy, written by the caller of the module
RegisterType(m, name, typ) ==
  /\ modules' = SetType(modules, m, name, typ)
  /\ Returned("RegisterType")
  /\ UNCHANGED <<module, graphVars, builderVars, autoNames, anchor, conventional,
                 typeVars, renderVars>>

\* String() of a module of the graph.  The node remembers what was rendered,
\* and the text of the first rendering of the module as it is now.
ModuleStringOf(m) ==
  \E o \in TypeOrders(DOMAIN modules[m].Types) :
    LET new == ModuleString(modules[m], o)
        again == /\ node.Variant = "Module"
                 /\ node.Id = m
                 /\ node.Mod = modules[m]
                 /\ node.Funcs = funcs
    IN /\ node' = [Variant |-> "Module", Id |-> m, Mod |-> modules[m], Funcs |-> funcs,
                   First |-> IF again THEN node.First ELSE new,
                   Times |-> IF again THEN 2 ELSE 1]
       /\ text' = new
       /\ Returned("String")
       /\ UNCHANGED <<moduleVars, graphVars, builderVars, autoNames, anchor, conventional,
                      typeVars, build>>

\* Builder.CreateGlobalVariable(name, typ, initializer)
CreateGlobalVariable(name, typ) ==
  LET g == Global(name, NewPointerWithAddressSpace(typ, 0))
  IN /\ modules' = IF module # Nil THEN AddGlobal(modules, module, g) ELSE modules
     /\ Returned("CreateGlobalVariable")
     /\ UNCHANGED <<module, graphVars, builderVars, autoNames, anchor, conventional,
                    typeVars, renderVars>>

\* Builder.CreateBlock(name)
CreateBlock(name) ==
  /\ blocks' = Append(blocks, NewBasicBlock(name, currentFunc))
  /\ funcs' = IF currentFunc # Nil THEN AddBlock(funcs, currentFunc, Len(blocks) + 1)
              ELSE funcs
  /\ Returned("CreateBlock")
  /\ UNCHANGED <<insts, moduleVars, builderVars, autoNames, anchor, conventional,
                 typeVars, renderVars>>

\* Builder.CreateBlockInFunction(name, fn)
CreateBlockInFunction(name, fn) ==
  /\ blocks' = Append(blocks, NewBasicBlock(name, fn))
  /\ funcs' = AddBlock(funcs, fn, Len(blocks) + 1)
  /\ Returned("CreateBlockInFunction")
  /\ UNCHANGED <<insts, moduleVars, builderVars, autoNames, anchor, conventional,
                 typeVars, renderVars>>

\* ------------------------------------------------ instruction constructors
\* The tail every constructor shares: b.insert(inst), then the constructor's
\* own CFG update on the block table, then return.  r is the instruction as
\* built before insert, arg the result name the caller passed, auto whether
\* generateName was called, counter the naming counter after that.
Emit(op, arg, r, auto, counter) ==
  /\ nameCounter' = counter
  /\ autoNames' = IF auto THEN Append(autoNames, r.ValName) ELSE autoNames
  /\ UNCHANGED <<moduleVars, funcs, currentFunc, currentBlock, typeVars, renderVars>>
  /\ IF InsertPanics(currentBlock)
     THEN /\ Ended(op, TRUE, arg)
          /\ blocks' = Unwound(blocks, UpdateCFG(blocks, currentBlock, r))
          /\ UNCHANGED <<insts, insertPoint, anchor, conventional>>
     ELSE LET id == Len(insts) + 1
          IN /\ insts' = Append(insts, SetParent(r, currentBlock))
             /\ blocks' = UpdateCFG(InsertedBlocks(blocks, currentBlock, insertPoint, id),
                                    currentBlock, r)
             /\ insertPoint' = CursorAfterInsert(insertPoint)
             /\ anchor' = IF anchor.X # Nil
                          THEN [anchor EXCEPT !.issued = Append(@, id)]
                          ELSE anchor
             /\ conventional' =
                  (conventional /\ IF insertPoint < 0
                                   THEN Terminator(currentBlock) = Nil
                                   ELSE ~IsTerminator(r.Op))
             /\ Ended(op, FALSE, arg)

\* Builder.CreateRet / CreateRetVoid
CreateRet ==
  Emit("CreateRet", "", NewInst("OpRet", "", Nil, <<>>), FALSE, nameCounter)

\* Builder.CreateUnreachable
CreateUnreachable ==
  Emit("CreateUnreachable", "", NewInst("OpUnreachable", "", Nil, <<>>), FALSE,
       nameCounter)

\* Builder.CreateBr(target)
CreateBr(t) ==
  Emit("CreateBr", "", NewInst("OpBr", "", Nil, <<t>>), FALSE, nameCounter)

\* Builder.CreateCondBr(cond, trueBlock, falseBlock)
CreateCondBr(t, f) ==
  Emit("CreateCondBr", "", NewInst("OpCondBr", "", Nil, <<t, f>>), FALSE, nameCounter)

\* Builder.CreateSwitch(cond, defaultBlock, numCases)
CreateSwitch(d) ==
  Emit("CreateSwitch", "", NewInst("OpSwitch", "", Nil, <<d>>), FALSE, nameCounter)

\* Builder.AddCase(sw, val, block)
AddCase(sw, val, blk) ==
  LET parent == CaseOwner(insts[sw].Parent_, currentBlock)
  IN /\ insts[sw].Op = "OpSwitch"
     /\ insts' = [insts EXCEPT ![sw].Cases = Append(@, [Value |-> val, Block |-> blk])]
     /\ blocks' = CaseEdge(blocks, parent, blk)
     /\ Returned("AddCase")
     /\ UNCHANGED <<moduleVars, funcs, builderVars, autoNames, anchor, conventional,
                    typeVars, renderVars>>

\* Builder.CreateStore(val, ptr)
CreateStore ==
  Emit("CreateStore", "", NewInst("OpStore", "", Nil, <<>>), FALSE, nameCounter)

\* createBinaryOp, CreateAlloca, CreateLoad, CreateGEP, createCast, CreateICmp,
\* CreateFCmp, CreatePhi, CreateSelect, CreateExtractValue, CreateInsertValue:
\* name the result, build, insert.
CreateNamed(op, name) ==
  LET auto == NeedsName(name)
      given == IF auto THEN GeneratedName(nameCounter) ELSE name
      counter == IF auto THEN CounterAfterGenerate(nameCounter) ELSE nameCounter
  IN Emit("CreateNamed", name, NewInst(op, given, Nil, <<>>), auto, counter)

\* Builder.CreatePhi(typ, name)
CreatePhi(typ, name) ==
  LET auto == NeedsName(name)
      given == IF auto THEN GeneratedName(nameCounter) ELSE name
      counter == IF auto THEN CounterAfterGenerate(nameCounter) ELSE nameCounter
  IN Emit("CreatePhi", name, PhiInst(given, typ), auto, counter)

\* PhiInst.AddIncoming(v, b) on the phi CreatePhi returned
AddIncoming(phi, v, b) ==
  /\ insts[phi].Op = "OpPhi"
  /\ insts' = [insts EXCEPT ![phi].Incoming = AppendIncoming(@, v, b)]
  /\ last' = [op |-> "AddIncoming", panic |-> FALSE, moved |-> FALSE, name |-> "",
              phi |-> phi, v |-> v, b |-> b]
  /\ UNCHANGED <<moduleVars, funcs, blocks, builderVars, autoNames, anchor, conventional,
                 typeVars, renderVars>>

\* String() of an instruction of the graph
StringOf(x) ==
  /\ insts[x].Op = "OpPhi"
  /\ node' = insts[x]
  /\ text' = InstString(build, insts[x])
  /\ Returned("String")
  /\ UNCHANGED <<moduleVars, graphVars, builderVars, autoNames, anchor, conventional,
                 typeVars, build>>

\* A call constructor that names a void call too
CallNeedsNameAlways(name, retVoid) == NeedsName(name)

\* CreateCall, CreateCallByName: name == "" && retType.Kind() != types.VoidKind
CallNeedsName(name, retVoid) == NeedsName(name) /\ ~retVoid

\* Builder.CreateCallByName(name, retType, args, resultName)
CreateCallByName(retVoid, resultName) ==
  LET auto == CallNeedsName(resultName, retVoid)
      given == IF auto THEN GeneratedName(nameCounter) ELSE resultName
      counter == IF auto THEN CounterAfterGenerate(nameCounter) ELSE nameCounter
      retType == IF retVoid THEN VoidT ELSE I32
  IN Emit("CreateCallByName", resultName,
          NewInst("OpCall", given, Nil, <<>>) @@ [ValType |-> retType], auto, counter)

\* Builder.ConstInt, ConstFloat, ConstNull, ConstUndef, ConstZero: a value is
\* built and returned, the builder is not touched
CreateConstant ==
  /\ Returned("Const")
  /\ UNCHANGED <<moduleVars, graphVars, builderVars, autoNames, anchor, conventional,
                 typeVars, renderVars>>

\* ------------------------------------------------------- specifications
\* What bounds a run: the caller builds fewer than n instructions and switch
\* cases together, asks for fewer than n automatic names, and creates the blocks and functions of
\* BlockNames and FuncNames in order.
RECURSIVE NumCases(_)
NumCases(k) == IF k = 0 THEN 0 ELSE Len(insts[k].Cases) + NumCases(k - 1)
RECURSIVE NumGlobals(_)
NumGlobals(m) == IF m = 0 THEN 0 ELSE Len(modules[m].Globals) + NumGlobals(m - 1)
CanCreate(n) == Len(insts) + NumCases(Len(insts)) < n
CanName(n) == nameCounter < n
NextBlockName == BlockNames[Len(blocks) + 1]
NextFuncName == FuncNames[Len(funcs) + 1]
MoreBlocks == Len(blocks) < Len(BlockNames)
MoreFuncs == Len(funcs) < Len(FuncNames)
NextModuleName == ModuleNames[Len(modules) + 1]
MoreModules == Len(modules) < Len(ModuleNames)

\* Control flow: blocks, the cursor, terminators and a store.
NextCFG ==
  \/ MoreBlocks /\ CreateBlock(NextBlockName)
  \/ \E b \in BlockIds : SetInsertPoint(b)
  \/ \E x \in InstIds : SetInsertPointBefore(x)
  \/ CanCreate(MaxCfgInsts) /\ CreateRet
  \/ CanCreate(MaxCfgInsts) /\ CreateUnreachable
  \/ CanCreate(MaxCfgInsts) /\ \E t \in BlockIds : CreateBr(t)
  \/ CanCreate(MaxCfgInsts) /\ \E t, f \in BlockIds : CreateCondBr(t, f)
  \/ CanCreate(MaxCfgInsts) /\ \E d \in BlockIds : CreateSwitch(d)
  \/ CanCreate(MaxCfgInsts)
       /\ \E sw \in InstIds, v \in CaseValues, blk \in BlockIds : AddCase(sw, v, blk)
  \/ CanCreate(MaxCfgInsts) /\ CreateStore

SpecCFG == Init /\ [][NextCFG]_vars

\* Insertion order: blocks, the cursor, a terminator and a non-terminator.
NextOrder ==
  \/ MoreBlocks /\ CreateBlock(NextBlockName)
  \/ \E b \in BlockIds : SetInsertPoint(b)
  \/ \E x \in InstIds : SetInsertPointBefore(x)
  \/ CanCreate(MaxInsts) /\ CreateStore
  \/ CanCreate(MaxInsts) /\ CreateRet

SpecOrder == Init /\ [][NextOrder]_vars

\* Naming: a module created before the functions, functions, blocks, the
\* cursor (positional mode before the newest instruction) and the constructors
\* that name results (a void call is given no name by its caller).
NextNaming ==
  \/ MoreModules /\ Len(funcs) = 0 /\ CreateModule(NextModuleName)
  \/ MoreFuncs /\ CreateFunction(NextFuncName, NewFunctionType(I32, <<I32>>, FALSE))
  \/ MoreBlocks /\ CreateBlock(NextBlockName)
  \/ \E b \in BlockIds : SetInsertPoint(b)
  \/ \E x \in InstIds : x = Len(insts) /\ SetInsertPointBefore(x)
  \/ CanCreate(MaxNamed)
       /\ \E name \in CallerNames :
            (NeedsName(name) => CanName(MaxNamed)) /\ CreateNamed("OpAdd", name)
  \/ CanCreate(MaxNamed)
       /\ \E retVoid \in BOOLEAN, name \in CallerNames :
            /\ CanName(MaxNamed)
            /\ retVoid => name = ""
            /\ CreateCallByName(retVoid, name)

SpecNaming == Init /\ [][NextNaming]_vars

\* Every instruction constructor, with one function, blocks and the cursor.
NextAll ==
  \/ Len(funcs) = 0
       /\ CreateFunction(NextFuncName, NewFunctionType(I32, <<I32>>, FALSE))
  \/ MoreBlocks /\ CreateBlock(NextBlockName)
  \/ MoreBlocks /\ \E fn \in FuncIds : CreateBlockInFunction(NextBlockName, fn)
  \/ \E b \in BlockIds : SetInsertPoint(b)
  \/ \E x \in InstIds : SetInsertPointBefore(x)
  \/ CanCreate(MaxAllInsts) /\ CreateRet
  \/ CanCreate(MaxAllInsts) /\ CreateUnreachable
  \/ CanCreate(MaxAllInsts) /\ \E t \in BlockIds : CreateBr(t)
  \/ CanCreate(MaxAllInsts) /\ \E t, f \in BlockIds : CreateCondBr(t, f)
  \/ CanCreate(MaxAllInsts) /\ \E d \in BlockIds : CreateSwitch(d)
  \/ CanCreate(MaxAllInsts) /\ CreateStore
  \/ CanCreate(MaxAllInsts)
       /\ \E op \in NamedOps, name \in CallerNames :
            (NeedsName(name) => CanName(MaxAllInsts)) /\ CreateNamed(op, name)
  \/ CanCreate(MaxAllInsts)
       /\ \E retVoid \in BOOLEAN, name \in CallerNames :
            CanName(MaxAllInsts) /\ CreateCallByName(retVoid, name)

Spec == Init /\ [][NextAll]_vars

\* Functions: a module, functions created and declared from a signature, blocks,
\* the cursor and an instruction.
NextFuncs ==
  \/ MoreModules /\ CreateModule(NextModuleName)
  \/ MoreFuncs /\ \E sig \in Signatures : CreateFunction(NextFuncName, sig)
  \/ MoreFuncs /\ \E sig \in Signatures : DeclareFunction(NextFuncName, sig)
  \/ MoreBlocks /\ CreateBlock(NextBlockName)
  \/ MoreBlocks /\ \E fn \in FuncIds : CreateBlockInFunction(NextBlockName, fn)
  \/ \E b \in BlockIds : SetInsertPoint(b)
  \/ CanCreate(MaxAllInsts) /\ CreateRet

SpecFuncs == Init /\ [][NextFuncs]_vars

\* Function text: functions of several signatures, argument names, blocks and
\* the functions' String().
HeaderSignatures ==
  {NewFunctionType(ret, ps, variadic) :
     ret \in {VoidT, I32}, ps \in SeqsUpTo(FieldTypes, MaxParams), variadic \in BOOLEAN}

NextHeader ==
  \/ Len(funcs) = 0 /\ \E sig \in HeaderSignatures : CreateFunction(NextFuncName, sig)
  \/ Len(funcs) = 0 /\ \E sig \in HeaderSignatures : DeclareFunction(NextFuncName, sig)
  \/ \E f \in FuncIds : \E k \in DOMAIN funcs[f].Arguments :
       funcs[f].Arguments[k].ValName = "" /\ SetArgName(f, k, "n")
  \/ MoreBlocks /\ CreateBlock(NextBlockName)
  \/ \E f \in FuncIds : FunctionStringOf(f)

SpecHeader == Init /\ [][NextHeader]_vars

\* Module text: a module, its named types, globals and functions, and the
\* module's String().
NextModule ==
  \/ MoreModules /\ CreateModule(NextModuleName)
  \/ \E m \in DOMAIN modules, name \in {"Point", "Q"} :
       RegisterType(m, name, NewStruct(name, <<I32>>, FALSE))
  \/ NumGlobals(Len(modules)) < MaxGlobals /\ CreateGlobalVariable("x", I32)
  \/ MoreFuncs /\ CreateFunction(NextFuncName, NewFunctionType(I32, <<I32>>, FALSE))
  \/ MoreFuncs /\ DeclareFunction(NextFuncName, NewFunctionType(VoidT, <<>>, TRUE))
  \/ MoreBlocks /\ CreateBlock(NextBlockName)
  \/ \E m \in DOMAIN modules : ModuleStringOf(m)

SpecModule == Init /\ [][NextModule]_vars

\* Equality among three types: a caller holds a, b and c and calls a.Equal(a),
\* a.Equal(b), b.Equal(a), b.Equal(c) and a.Equal(c).
EquivTypes ==
  {VoidT, I32, NewPointerWithAddressSpace(I32, 0)}
    \cup {NewStruct(name, fields, packed) :
            name \in StructNames, fields \in SeqsUpTo(FieldTypes, 1), packed \in BOOLEAN}

Answer(b) == IF b THEN "true" ELSE "false"

InitEquiv ==
  /\ InitBuilder
  /\ tyA \in EquivTypes
  /\ tyB \in EquivTypes
  /\ tyC \in EquivTypes
  /\ eqResult = "none"
  /\ eqTable = NoResults
  /\ NoRender

CallEqualAmongThree ==
  /\ eqTable = NoResults
  /\ eqTable' = [p \in Pairs |->
                   CASE p = "aa" -> Answer(Equal(tyA, tyA))
                     [] p = "ab" -> Answer(Equal(tyA, tyB))
                     [] p = "ba" -> Answer(Equal(tyB, tyA))
                     [] p = "bc" -> Answer(Equal(tyB, tyC))
                     [] p = "ac" -> Answer(Equal(tyA, tyC))]
  /\ UNCHANGED <<graphVars, moduleVars, builderVars, historyVars, tyA, tyB, tyC, eqResult,
                 renderVars>>

NextEquiv == CallEqualAmongThree

SpecEquiv == InitEquiv /\ [][NextEquiv]_vars

\* The naming counter under every kind of operation: one block, positional
\* mode before the newest instruction.
NextCounter ==
  \/ Len(funcs) = 0 /\ CreateFunction(NextFuncName, NewFunctionType(I32, <<I32>>, FALSE))
  \/ Len(funcs) = 1 /\ DeclareFunction(NextFuncName, NewFunctionType(VoidT, <<>>, FALSE))
  \/ Len(blocks) = 0 /\ CreateBlock(NextBlockName)
  \/ \E b \in BlockIds : SetInsertPoint(b)
  \/ \E x \in InstIds : x = Len(insts) /\ SetInsertPointBefore(x)
  \/ last.op # "Const" /\ CreateConstant
  \/ CanCreate(MaxCounterInsts) /\ CreateRet
  \/ CanCreate(MaxCounterInsts) /\ CreateUnreachable
  \/ CanCreate(MaxCounterInsts) /\ \E t \in BlockIds : CreateBr(t)
  \/ CanCreate(MaxCounterInsts) /\ \E t, f \in BlockIds : CreateCondBr(t, f)
  \/ CanCreate(MaxCounterInsts) /\ \E d \in BlockIds : CreateSwitch(d)
  \/ CanCreate(MaxCounterInsts)
       /\ \E sw \in InstIds, v \in CaseValues, blk \in BlockIds : AddCase(sw, v, blk)
  \/ CanCreate(MaxCounterInsts) /\ CreateStore
  \/ CanCreate(MaxCounterInsts)
       /\ \E name \in CallerNames :
            (NeedsName(name) => CanName(MaxCounterInsts)) /\ CreateNamed("OpAdd", name)
  \/ CanCreate(MaxCounterInsts)
       /\ \E retVoid \in BOOLEAN, name \in CallerNames :
            CanName(MaxCounterInsts) /\ CreateCallByName(retVoid, name)

SpecCounter == Init /\ [][NextCounter]_vars

\* Text: a caller holds an instruction and asks for its String().
InitRender ==
  /\ InitBuilder
  /\ tyA = VoidT
  /\ tyB = VoidT
  /\ eqResult = "none"
  /\ tyC = VoidT
  /\ eqTable = NoResults
  /\ build \in Builds
  /\ node \in RenderNodes
  /\ text = ""

String ==
  /\ text = ""
  /\ text' = InstString(build, node)
  /\ UNCHANGED <<graphVars, moduleVars, builderVars, historyVars, typeVars, build, node>>

NextRender == String

SpecRender == InitRender /\ [][NextRender]_vars

\* Phi nodes: blocks, a branch, phi nodes, their incoming pairs and their text.
PhiValues == {ConstInt(I32, 2), Result("v1", I32)}
RECURSIVE NumIncoming(_)
NumIncoming(k) ==
  IF k = 0 THEN 0
  ELSE (IF insts[k].Op = "OpPhi" THEN Len(insts[k].Incoming) ELSE 0) + NumIncoming(k - 1)

CanAddPhiNode == Len(insts) + NumIncoming(Len(insts)) < MaxPhiNodes

InitPhi ==
  /\ InitBuilder
  /\ tyA = VoidT
  /\ tyB = VoidT
  /\ eqResult = "none"
  /\ tyC = VoidT
  /\ eqTable = NoResults
  /\ build \in Builds
  /\ node = NilValue
  /\ text = ""

NextPhi ==
  \/ MoreBlocks /\ CreateBlock(NextBlockName)
  \/ \E b \in BlockIds : SetInsertPoint(b)
  \/ CanAddPhiNode /\ \E t \in BlockIds : CreateBr(t)
  \/ CanAddPhiNode /\ CreatePhi(I32, "p")
  \/ CanAddPhiNode
       /\ \E phi \in InstIds, v \in PhiValues, b \in BlockIds : AddIncoming(phi, v, b)
  \/ \E x \in InstIds : StringOf(x)

SpecPhi == InitPhi /\ [][NextPhi]_vars

\* Persistence: every operation that adds a node to a list (positional mode
\* before the newest instruction).
CanAddNode ==
  Len(insts) + NumCases(Len(insts)) + NumIncoming(Len(insts)) < MaxPersistNodes

NextPersist ==
  \/ MoreModules /\ CreateModule(NextModuleName)
  \/ Len(funcs) = 0 /\ CreateFunction(NextFuncName, NewFunctionType(I32, <<I32>>, FALSE))
  \/ NumGlobals(Len(modules)) < MaxGlobals /\ CreateGlobalVariable("x", I32)
  \/ MoreBlocks /\ CreateBlock(NextBlockName)
  \/ \E b \in BlockIds : SetInsertPoint(b)
  \/ \E x \in InstIds : x = Len(insts) /\ SetInsertPointBefore(x)
  \/ CanAddNode /\ \E t \in BlockIds : CreateBr(t)
  \/ CanAddNode /\ CreateStore
  \/ CanAddNode /\ CreatePhi(I32, "p")
  \/ CanAddNode /\ \E phi \in InstIds, b \in BlockIds : AddIncoming(phi, ConstInt(I32, 2), b)

SpecPersist == Init /\ [][NextPersist]_vars

\* Operands: a caller holds an instruction and calls SetOperand on it.
\* A negative index passes the loop and panics at the store.
SetOperand(idx, v) ==
  /\ node' = IF idx < 0 THEN node ELSE [node EXCEPT !.Ops = StoreOperand(node.Ops, idx, v)]
  /\ last' = [op |-> "SetOperand", panic |-> idx < 0, moved |-> FALSE, name |-> "",
              idx |-> idx, v |-> v]
  /\ UNCHANGED <<graphVars, moduleVars, builderVars, autoNames, anchor, conventional,
                 typeVars, build, text>>

InitOperands ==
  /\ InitBuilder
  /\ tyA = VoidT
  /\ tyB = VoidT
  /\ eqResult = "none"
  /\ tyC = VoidT
  /\ eqTable = NoResults
  /\ build = "part_000"
  /\ node \in BareInsts
  /\ text = ""

NextOperands == \E idx \in (0 - 1)..MaxIndex, v \in StoredValues : SetOperand(idx, v)

SpecOperands == InitOperands /\ [][NextOperands]_vars

\* Type equality: a caller holds two types and asks a.Equal(b).
InitTypes ==
  /\ InitBuilder
  /\ tyA \in TypeSet
  /\ tyB \in TypeSet
  /\ eqResult = "none"
  /\ tyC = VoidT
  /\ eqTable = NoResults
  /\ NoRender

CallEqual ==
  /\ eqResult = "none"
  /\ eqResult' = IF Equal(tyA, tyB) THEN "true" ELSE "false"
  /\ UNCHANGED <<graphVars, moduleVars, builderVars, historyVars, tyA, tyB, tyC, eqTable,
                 renderVars>>

NextTypes == CallEqual

SpecTypes == InitTypes /\ [][NextTypes]_vars

\* ==================================================================== claims
IndexOf(s, x) == CHOOSE i \in DOMAIN s : s[i] = x

\* The block SetInsertPointBefore(X) pointed into, as the claim predicts it:
\* what preceded X, the instructions issued since in issue order, X, the rest.
ExpectedAfterAnchor ==
  LET i == IndexOf(anchor.old, anchor.X)
  IN SubSeq(anchor.old, 1, i - 1) \o anchor.issued \o <<anchor.X>>
       \o SubSeq(anchor.old, i + 1, Len(anchor.old))

\* C1: after SetInsertPointBefore(X), X at index i of block B, the instructions
\* created since (with no cursor change) leave B equal to the old B[0..i-1], then
\* those instructions in issue order, then X, then the old B[i+1..].
C1_PositionalOrder ==
  anchor.X # Nil => blocks[anchor.B].Instructions = ExpectedAfterAnchor

\* C1 witness: two instructions were inserted before an X that had a predecessor.
C1_Witness ==
  /\ anchor.X # Nil
  /\ Len(anchor.issued) >= 2
  /\ IndexOf(anchor.old, anchor.X) >= 2
  /\ blocks[anchor.B].Instructions = ExpectedAfterAnchor

\* The step is a successful call of constructor op: it returned a new instruction.
Created(op) == last'.op = op /\ ~last'.panic /\ Len(insts') = Len(insts) + 1

\* The instruction the step created sits in the current block.
InsertedInCurrent == Count(Len(insts'), blocks'[currentBlock].Instructions) = 1

C2_Br ==
  Created("CreateBr") =>
    LET S == currentBlock
        t == insts'[Len(insts')].Targets[1]
    IN /\ InsertedInCurrent
       /\ blocks'[S].Successors = Append(blocks[S].Successors, t)
       /\ blocks'[t].Predecessors = Append(blocks[t].Predecessors, S)

C2_CondBr ==
  Created("CreateCondBr") =>
    LET S == currentBlock
        t == insts'[Len(insts')].Targets[1]
        f == insts'[Len(insts')].Targets[2]
        once == IF t = f THEN <<S, S>> ELSE <<S>>
    IN /\ InsertedInCurrent
       /\ blocks'[S].Successors = blocks[S].Successors \o <<t, f>>
       /\ blocks'[t].Predecessors = blocks[t].Predecessors \o once
       /\ blocks'[f].Predecessors = blocks[f].Predecessors \o once

C2_Switch ==
  Created("CreateSwitch") =>
    LET S == currentBlock
        d == insts'[Len(insts')].Targets[1]
    IN /\ InsertedInCurrent
       /\ blocks'[S].Successors = Append(blocks[S].Successors, d)
       /\ blocks'[d].Predecessors = Append(blocks[d].Predecessors, S)

\* C2: with current block S, CreateBr(t) appends t to S.Successors and S to
\* t.Predecessors; CreateCondBr(c,t,f) appends t then f to S.Successors and S to
\* t.Predecessors and to f.Predecessors; CreateSwitch(c,d,n) appends d to
\* S.Successors and S to d.Predecessors; in append and in positional mode alike,
\* in the very step that inserts the instruction.
C2_EdgeSync == [][C2_Br /\ C2_CondBr /\ C2_Switch]_vars

\* C2 witness: a conditional branch was just inserted in positional mode, before
\* an existing instruction, and its edges are recorded.
C2_Witness ==
  /\ last.op = "CreateCondBr"
  /\ ~last.panic
  /\ insertPoint >= 1
  /\ Len(blocks[currentBlock].Instructions) >= 2
  /\ LET br == insts[Len(insts)]
     IN /\ br.Op = "OpCondBr"
        /\ Count(currentBlock, blocks[br.Targets[1]].Predecessors) >= 1
        /\ Count(br.Targets[2], blocks[currentBlock].Successors) >= 1

\* Branch targets, switch defaults and switch cases naming block T, over the
\* instructions 1..k that sit in block S.
RECURSIVE IssuedTo(_, _, _)
IssuedTo(k, S, T) ==
  IF k = 0 THEN 0
  ELSE (IF insts[k].Parent_ = S
        THEN Count(T, insts[k].Targets)
             + Cardinality({c \in DOMAIN insts[k].Cases : insts[k].Cases[c].Block = T})
        ELSE 0) + IssuedTo(k - 1, S, T)

\* C3: for every source S and target T, the entries equal to S in T.Predecessors
\* number exactly the branch targets, conditional-branch targets, switch defaults
\* and switch cases issued from S that name T; duplicates are not collapsed.
C3_EdgeAccumulation ==
  \A S \in BlockIds, T \in BlockIds :
    Count(S, blocks[T].Predecessors) = IssuedTo(Len(insts), S, T)

\* C3 witness: a switch whose case names the block its default names, so that
\* block lists the switch's block twice.
C3_Witness ==
  \E sw \in InstIds :
    /\ insts[sw].Op = "OpSwitch"
    /\ Len(insts[sw].Cases) >= 1
    /\ insts[sw].Cases[1].Block = insts[sw].Targets[1]
    /\ Count(insts[sw].Parent_, blocks[insts[sw].Targets[1]].Predecessors) = 2

\* At most one terminator in block b, and that one last.
TerminatorPlaced(b) ==
  LET s == blocks[b].Instructions
  IN \A k \in DOMAIN s : IsTerminator(insts[s[k]].Op) => k = Len(s)

\* C4 as stated: after any sequence of builder operations every basic block
\* contains at most one terminator, and if it contains one it is the last
\* instruction of the block.
C4_AsStated == \A b \in BlockIds : TerminatorPlaced(b)

\* C4 (amended): terminator placement is the caller's convention, which the
\* builder keeps but does not enforce: while no instruction was appended to a
\* block ending in a terminator and no terminator was inserted in positional
\* mode, every block has at most one terminator and it is last.
C4_PlacementByConvention == conventional => \A b \in BlockIds : TerminatorPlaced(b)

\* C4 witness: a conventional build put an instruction before a terminator by
\* positional insertion.
C4_Witness ==
  /\ conventional
  /\ insertPoint >= 1
  /\ last.op = "CreateStore"
  /\ Terminator(currentBlock) # Nil
  /\ Len(blocks[currentBlock].Instructions) >= 2

\* C5: for every block, Terminator() is the last instruction iff the block is
\* non-empty and the last instruction's opcode is ret, br, condbr, switch or
\* unreachable; otherwise it is nil, also when the block is empty and when only
\* an earlier instruction is a terminator.
C5_TerminatorClassification ==
  \A b \in BlockIds :
    LET s == blocks[b].Instructions
    IN IF Len(s) > 0 /\ insts[s[Len(s)]].Op \in Terminators
       THEN Terminator(b) = s[Len(s)]
       ELSE Terminator(b) = Nil

\* C5 witness: a block where an unreachable is followed by a store, so that
\* Terminator() is nil although the block holds a terminator.
C5_Witness ==
  \E b \in BlockIds :
    LET s == blocks[b].Instructions
    IN /\ Len(s) = 2
       /\ insts[s[1]].Op = "OpUnreachable"
       /\ insts[s[2]].Op = "OpStore"
       /\ Terminator(b) = Nil

\* The step is a successful constructor call.
CreatedAny == ~last'.panic /\ Len(insts') = Len(insts) + 1

\* The instruction the step created is the last of the current block.
PlacedAtEnd ==
  LET s == blocks'[currentBlock].Instructions
  IN Len(s) > 0 /\ s[Len(s)] = Len(insts')

\* C7 as stated: after every builder operation that changes the builder's
\* current block, the next created instruction is placed at the end of the new
\* current block.
C7_AsStated == [][(last.moved /\ CreatedAny) => PlacedAtEnd]_vars

\* C7 (amended): SetInsertPoint always resets the cursor to append mode, whether
\* or not it changes the current block, and in append mode a created instruction
\* is placed at the end of the current block; SetInsertPointBefore(X) makes X's
\* block current and leaves the cursor in positional mode at X.
C7_SetInsertPointResets ==
  [][/\ last'.op = "SetInsertPoint" => insertPoint' = AppendMode
     /\ (insertPoint = AppendMode /\ CreatedAny) => PlacedAtEnd
     /\ last'.op = "SetInsertPointBefore" =>
          /\ insertPoint' >= 0
          /\ currentBlock' = insts[anchor'.X].Parent_
          /\ blocks[currentBlock'].Instructions[insertPoint' + 1] = anchor'.X]_vars

\* C7 witness: SetInsertPoint has just moved the builder to a block that holds
\* instructions, away from another block that holds some, and the cursor is in
\* append mode.
C7_Witness ==
  /\ last.op = "SetInsertPoint"
  /\ last.moved
  /\ insertPoint = AppendMode
  /\ Len(blocks[currentBlock].Instructions) >= 1
  /\ \E b \in BlockIds : b # currentBlock /\ Len(blocks[b].Instructions) >= 1

Constructors ==
  {"CreateRet", "CreateUnreachable", "CreateBr", "CreateCondBr", "CreateSwitch",
   "CreateStore", "CreateNamed", "CreateCallByName"}

\* C6: every instruction-creating operation invoked while the builder has no
\* current block ends in a panic instead of returning, inserts no instruction
\* into any block and adds no predecessor or successor entry.
C6_NoBlockPanics ==
  [][(currentBlock = Nil /\ last'.op \in Constructors) =>
       (last'.panic /\ blocks' = blocks /\ insts' = insts)]_vars

\* C6 witness: CreateBr has just panicked for want of a current block, with
\* a block to branch to in existence and no edge recorded anywhere.
C6_Witness ==
  /\ currentBlock = Nil
  /\ last.op = "CreateBr"
  /\ last.panic
  /\ Len(blocks) >= 1
  /\ \A b \in BlockIds : blocks[b].Predecessors = <<>> /\ blocks[b].Successors = <<>>

\* C8: the k-th automatic name a Builder hands out is the decimal text of k-1
\* (the first is "0"); the counter never decreases and no operation resets it, so
\* automatic names are pairwise distinct across all functions built with it.
C8_AutomaticNaming ==
  /\ [](/\ \A k \in DOMAIN autoNames : autoNames[k] = Decimal(k - 1)
        /\ \A j \in DOMAIN autoNames, k \in DOMAIN autoNames :
             j # k => autoNames[j] # autoNames[k])
  /\ [][nameCounter' >= nameCounter]_vars

\* C8 witness: the names "0" and "1" were handed out to instructions of two
\* different functions.
C8_Witness ==
  /\ autoNames = <<"0", "1">>
  /\ \E i \in InstIds, j \in InstIds :
       /\ insts[i].ValName = "0"
       /\ insts[j].ValName = "1"
       /\ blocks[insts[i].Parent_].Parent # Nil
       /\ blocks[insts[j].Parent_].Parent # Nil
       /\ blocks[insts[i].Parent_].Parent # blocks[insts[j].Parent_].Parent

NamingConstructors == {"CreateNamed", "CreateCallByName"}

\* C9: a non-empty name passed to an instruction-creating operation is stored
\* unchanged and does not advance the counter, whatever names the counter has
\* produced or will produce.
C9_ExplicitNamesUnchecked ==
  [][(last'.op \in NamingConstructors /\ last'.name # "") =>
       /\ nameCounter' = nameCounter
       /\ CreatedAny => insts'[Len(insts')].ValName = last'.name]_vars

\* C9 witness: two instructions of one function carry the same name, one from
\* the counter and one from the caller.
C9_Witness ==
  /\ last.name # ""
  /\ \E i \in InstIds, j \in InstIds :
       /\ i # j
       /\ insts[i].ValName = insts[j].ValName
       /\ insts[j].ValName = last.name
       /\ \E k \in DOMAIN autoNames : autoNames[k] = insts[i].ValName
       /\ blocks[insts[i].Parent_].Parent # Nil
       /\ blocks[insts[i].Parent_].Parent = blocks[insts[j].Parent_].Parent

BothStructs == tyA.Kind = "StructKind" /\ tyB.Kind = "StructKind"

NonStruct(t) == t.Kind # "StructKind"

\* C11: for every pair of non-struct types Equal is true iff both have the same
\* variant and every constituent field matches recursively, that is, iff the
\* two types are the same type expression.
C11_StructuralEquality ==
  (eqResult # "none" /\ NonStruct(tyA) /\ NonStruct(tyB)) =>
    ((eqResult = "true") <=> (tyA = tyB))

\* C11 witness: two functions returning a pointer, one taking an array and one a
\* pointer, compared unequal two levels down.
C11_Witness ==
  /\ tyA = NewFunctionType(NewPointerWithAddressSpace(I32, 0), <<NewArray(F64, 2)>>, TRUE)
  /\ tyB = NewFunctionType(NewPointerWithAddressSpace(I32, 0),
                           <<NewPointerWithAddressSpace(I32, 0)>>, TRUE)
  /\ eqResult = "false"

\* The arguments of function f bind its signature: as many as parameter types,
\* the one at position i (from 0) of type Ti, index i and parent f.
ArgumentsBound(f) ==
  LET params == funcs[f].FuncType.ParamTypes
      args == funcs[f].Arguments
  IN /\ Len(args) = Len(params)
     /\ \A k \in 1..Len(args) :
          /\ args[k].ValType = params[k]
          /\ args[k].Index = k - 1
          /\ args[k].Parent = f

\* C12: a function created from a signature with parameter types [T1..Tn] has
\* exactly n arguments, the one at position i has type Ti, index i and that
\* function as its parent, and no later builder operation changes the list.
C12_ArgumentBinding ==
  /\ [](\A f \in FuncIds : ArgumentsBound(f))
  /\ [][\A f \in FuncIds : funcs'[f].Arguments = funcs[f].Arguments]_vars

\* C12 witness: a created and a declared function of two parameters each, of
\* different types, with a block and an instruction built since.
C12_Witness ==
  /\ Len(funcs) = 2
  /\ Len(insts) >= 1
  /\ \A f \in FuncIds : Len(funcs[f].Arguments) = 2
  /\ funcs[1].Arguments[2].ValType # funcs[1].Arguments[1].ValType
  /\ funcs[2].Arguments[2].Index = 1
  /\ currentFunc = 1

\* The call from "call" on, with "void" for an absent or void result type.
CallBody ==
  (IF node.IsTailCall THEN "tail " ELSE "") \o "call "
    \o (IF node.ValType = NilType \/ node.ValType = VoidT THEN "void"
        ELSE TypeString(node.ValType))
    \o " @" \o (IF node.Callee # NilValue THEN node.Callee.ValName ELSE node.CalleeName)
    \o "(" \o JoinStrings(CallArgs(build, node), ", ") \o ")"

\* C13: a call whose result type is absent or void is rendered as
\* "[tail ]call void @<callee>(<args>)" with no "%name = " prefix, whatever its
\* name; a call of any other result type as
\* "%<name> = [tail ]call <rettype> @<callee>(<args>)".
C13_VoidSafeCall ==
  (text # "" /\ node.Op = "OpCall") =>
    text = IF node.ValType = NilType \/ node.ValType = VoidT
           THEN CallBody
           ELSE "%" \o node.ValName \o " = " \o CallBody

\* C13 witness: a named tail call of void type with an argument, rendered
\* without the name.
C13_Witness ==
  /\ node.Op = "OpCall"
  /\ node.ValType = VoidT
  /\ node.ValName = "r"
  /\ node.IsTailCall
  /\ node.Callee = NilValue
  /\ node.Ops = <<ConstInt(I32, 2)>>
  /\ build = "part_000"
  /\ text = "tail call void @f(i32 2)"

\* The operand list after a store at position idx, as C14 describes it.
StoredAsDescribed(old, new, idx, v) ==
  IF idx >= Len(old)
  THEN /\ Len(new) = idx + 1
       /\ \A k \in 1..Len(old) : new[k] = old[k]
       /\ \A k \in (Len(old) + 1)..idx : new[k] = NilValue
       /\ new[idx + 1] = v
  ELSE /\ Len(new) = Len(old)
       /\ new[idx + 1] = v
       /\ \A k \in 1..Len(old) : k # idx + 1 => new[k] = old[k]

\* C14: SetOperand(idx, v) with idx at or beyond the operand count grows the
\* list to idx+1, keeps the existing operands, fills the new positions below
\* idx with the null placeholder and stores v at idx; with idx below the count
\* it replaces position idx only and keeps the length.
C14_SetOperandGrows ==
  [][(last'.op = "SetOperand" /\ last'.idx >= 0) =>
       StoredAsDescribed(node.Ops, node'.Ops, last'.idx, last'.v)]_vars

\* C14 witness: a store at position 3 of a one-operand instruction left two
\* null placeholders between the old operand and the new one.
C14_Witness ==
  /\ last.op = "SetOperand"
  /\ last.idx = 3
  /\ node.Ops = <<Result("x", I32), NilValue, NilValue, ConstInt(I32, 2)>>

\* One incoming pair as a phi writes it.
PairText(p) ==
  "[ " \o (IF build = "part_000" THEN formatOp(p.Value) ELSE "%" \o p.Value.ValName)
    \o ", %" \o blocks[p.Block].ValName \o " ]"

\* C15: each AddIncoming(v, b) adds exactly the entry (v, b) at the end of the
\* phi's incoming list and leaves the earlier entries as they were; it is never
\* rejected or merged, whether the pair is already present or b is no
\* predecessor of the phi's block; the phi's text lists the pairs in the order
\* they were added.
C15_PhiAppendOnly ==
  /\ [][last'.op = "AddIncoming" =>
          /\ ~last'.panic
          /\ Len(insts'[last'.phi].Incoming) = Len(insts[last'.phi].Incoming) + 1
          /\ \A k \in DOMAIN insts[last'.phi].Incoming :
               insts'[last'.phi].Incoming[k] = insts[last'.phi].Incoming[k]
          /\ insts'[last'.phi].Incoming[Len(insts'[last'.phi].Incoming)] =
               [Value |-> last'.v, Block |-> last'.b]
          /\ \A x \in InstIds : x # last'.phi => insts'[x] = insts[x]]_vars
  /\ []((text # "" /\ node.Op = "OpPhi") =>
          text = "%" \o node.ValName \o " = phi " \o TypeString(node.ValType) \o " "
                   \o JoinStrings([k \in DOMAIN node.Incoming |-> PairText(node.Incoming[k])],
                                  ", "))

\* C15 witness: a phi in block entry, which has no predecessor, was given the
\* same pair twice and then a third pair, and its text lists the three in order.
C15_Witness ==
  /\ Len(insts) >= 1
  /\ insts[1].Op = "OpPhi"
  /\ insts[1].Parent_ = 1
  /\ blocks[1].Predecessors = <<>>
  /\ last.op = "String"
  /\ build = "part_000"
  /\ text = "%p = phi i32 [ 2, %merge ], [ 2, %merge ], [ %v1, %entry ]"

\* How many times instruction x stands in the sequence of block b.
Occurrences(x, b) == Count(x, blocks[b].Instructions)

\* C16: every instruction stands in the sequence of at most one block and at
\* most once in it, and the Parent of every instruction found in a block's
\* sequence is that block, after appends and positional insertions alike.
C16_InstructionOwnership ==
  /\ \A x \in InstIds :
       /\ \A b \in BlockIds : Occurrences(x, b) <= 1
       /\ \A b, c \in BlockIds : (Occurrences(x, b) > 0 /\ Occurrences(x, c) > 0) => b = c
  /\ \A b \in BlockIds : \A k \in DOMAIN blocks[b].Instructions :
       insts[blocks[b].Instructions[k]].Parent_ = b

\* C16 witness: one block holds an instruction inserted before an older one,
\* another block holds an appended instruction.
C16_Witness ==
  /\ Len(blocks) = 2
  /\ blocks[1].Instructions = <<3, 1>>
  /\ blocks[2].Instructions = <<2>>
  /\ last.op = "CreateStore"

\* The blocks instruction x names as targets: a branch's target, a conditional
\* branch's two, a switch's default followed by its cases.
TargetsNamed(x) ==
  IF insts[x].Op \in {"OpBr", "OpCondBr", "OpSwitch"}
  THEN insts[x].Targets \o [k \in DOMAIN insts[x].Cases |-> insts[x].Cases[k].Block]
  ELSE <<>>

\* How many times the instructions in sequence s name block T as a target.
RECURSIVE TimesTargeted(_, _)
TimesTargeted(s, T) ==
  IF s = <<>> THEN 0 ELSE Count(T, TargetsNamed(Head(s))) + TimesTargeted(Tail(s), T)

\* C17: for every block S, the multiset of S.Successors equals the multiset of
\* blocks named as targets by the br, condbr and switch instructions (default
\* and every case) in S's instruction sequence.
C17_SuccessorsMatchTargets ==
  \A S, T \in BlockIds :
    Count(T, blocks[S].Successors) = TimesTargeted(blocks[S].Instructions, T)

\* C17 witness: a switch whose default and added case name the same block, so
\* that block stands twice among the successors.
C17_Witness ==
  /\ Len(insts) = 1
  /\ insts[1].Op = "OpSwitch"
  /\ insts[1].Targets = <<2>>
  /\ Len(insts[1].Cases) = 1
  /\ insts[1].Cases[1].Block = 2
  /\ blocks[1].Instructions = <<1>>
  /\ blocks[1].Successors = <<2, 2>>

\* How many times block b stands in the block list of function f.
Listed(b, f) == Count(b, funcs[f].Blocks)

\* C18 as stated: every block made by CreateBlock or CreateBlockInFunction has
\* a function as its Parent, stands exactly once in that function's block list
\* and in no other function's.
C18_AsStated ==
  \A b \in BlockIds :
    /\ blocks[b].Parent \in FuncIds
    /\ \A f \in FuncIds : Listed(b, f) = IF f = blocks[b].Parent THEN 1 ELSE 0

\* C18: a block made by CreateBlockInFunction, or by CreateBlock while a
\* current function is set, has that function as its Parent, stands exactly
\* once in its block list and in no other function's; a block made by
\* CreateBlock while no current function is set has no Parent and stands in no
\* function's block list.
C18_OwnedWhenFunctionSet ==
  /\ [](\A b \in BlockIds :
          /\ blocks[b].Parent \in FuncIds \cup {Nil}
          /\ \A f \in FuncIds : Listed(b, f) = IF f = blocks[b].Parent THEN 1 ELSE 0)
  /\ [][/\ last'.op = "CreateBlock" => blocks'[Len(blocks')].Parent = currentFunc
        /\ last'.op = "CreateBlockInFunction" => blocks'[Len(blocks')].Parent \in FuncIds
        /\ \A b \in BlockIds : blocks'[b].Parent = blocks[b].Parent]_vars

\* C18 witness: the first block was made before any function existed, the
\* second was placed in a function other than the current one.
C18_Witness ==
  /\ Len(blocks) = 2
  /\ blocks[1].Parent = Nil
  /\ blocks[2].Parent = 1
  /\ funcs[1].Blocks = <<2>>
  /\ currentFunc = 2
  /\ last.op = "CreateBlockInFunction"

\* Sequence new holds the elements of sequence old in their old order.
RECURSIVE KeepsOrder(_, _)
KeepsOrder(old, new) ==
  IF old = <<>> THEN TRUE
  ELSE IF new = <<>> THEN FALSE
  ELSE IF Head(old) = Head(new) THEN KeepsOrder(Tail(old), Tail(new))
  ELSE KeepsOrder(old, Tail(new))

PolicyText(v) ==
  IF v.Variant \in ConstantVariants THEN Literal(v) ELSE "%" \o v.ValName

\* The operands of the held instruction that its text shows.
ShownOperands == SelectSeq(node.Ops, LAMBDA v : v # NilValue)

\* C20: every instruction writes its operands by one policy: a constant of any
\* variant (integer, float, null, undef, zero-initializer, array, struct) inline
\* by its literal value, every other operand (argument, global, instruction
\* result) as %<name>.
C20_OneOperandPolicy ==
  (text # "" /\ node.Op \in {"OpAdd", "OpCall"}) =>
    text = IF node.Op = "OpAdd"
           THEN "%" \o node.ValName \o " = add" \o (IF node.NoSignedWrap THEN " nsw" ELSE "")
                  \o " " \o TypeString(node.Ops[1].ValType) \o " "
                  \o PolicyText(node.Ops[1]) \o ", " \o PolicyText(node.Ops[2])
           ELSE (IF node.ValType = NilType \/ node.ValType = VoidT THEN ""
                 ELSE "%" \o node.ValName \o " = ")
                  \o (IF node.IsTailCall THEN "tail " ELSE "") \o "call "
                  \o (IF node.ValType = NilType \/ node.ValType = VoidT THEN "void"
                      ELSE TypeString(node.ValType))
                  \o " @" \o (IF node.Callee # NilValue THEN node.Callee.ValName
                              ELSE node.CalleeName)
                  \o "(" \o JoinStrings([k \in DOMAIN ShownOperands |->
                                          TypeString(ShownOperands[k].ValType) \o " "
                                            \o PolicyText(ShownOperands[k])], ", ")
                  \o ")"

\* An argument as C21 describes it in a function header.
ArgAsDescribed(arg) ==
  TypeString(arg.ValType) \o " %"
    \o (IF arg.ValName # "" THEN arg.ValName ELSE IntText(arg.Index))

\* C21: Function.String starts with "declare" when the function has no block
\* and with "define" when it has one or more, and writes every argument as
\* "<type> %<name>" when it is named and as "<type> %<index>" when it is not,
\* comma-joined, with a trailing "..." when the signature is variadic.
C21_FunctionHeader ==
  (text # "" /\ node.Variant = "Function") =>
    LET fn == node.Fn
        args == [i \in DOMAIN fn.Arguments |-> ArgAsDescribed(fn.Arguments[i])]
        all == IF fn.FuncType.Variadic THEN Append(args, "...") ELSE args
    IN text = (IF Len(fn.Blocks) = 0 THEN "declare " ELSE "define ")
                \o LinkageString(fn.Linkage) \o " " \o TypeString(fn.FuncType.ReturnType)
                \o " @" \o fn.ValName \o "(" \o JoinStrings(all, ", ") \o ")"
                \o (IF Len(fn.Blocks) = 0 THEN ""
                    ELSE " {\n" \o WriteEach(node.Body, "", "") \o "}")

\* C22: rendering the same unmodified module twice yields identical text, with
\* exactly one "%<Name> = type <TypeString>" line per named struct type in a
\* fixed order, then the globals in insertion order, then the functions in
\* insertion order.
C22_CanonicalModuleText ==
  (text # "" /\ node.Variant = "Module") =>
    /\ text = node.First
    /\ \E o \in RangeOrders(DOMAIN node.Mod.Types) :
         text = WriteEach([k \in DOMAIN o |->
                             "%" \o o[k] \o " = type " \o TypeString(node.Mod.Types[o[k]])],
                          "", "\n")
                  \o (IF DOMAIN node.Mod.Types # {} THEN "\n" ELSE "")
                  \o WriteEach([k \in DOMAIN node.Mod.Globals |->
                                  GlobalString(node.Mod.Globals[k])], "", "\n")
                  \o (IF Len(node.Mod.Globals) > 0 THEN "\n" ELSE "")
                  \o JoinStrings([k \in DOMAIN node.Mod.Functions |->
                                    FunctionString(node.Funcs[node.Mod.Functions[k]])
                                      \o "\n"], "\n")

C24_FailedCreationKeepsCounter ==
  [][(last'.panic /\ last'.name = "") => nameCounter' = nameCounter]_vars

\* C25: Type.Equal is an equivalence relation over all types, struct types
\* included: reflexive, symmetric and transitive, also across mixes of named
\* and anonymous struct types.
C25_EqualIsEquivalence ==
  eqTable # NoResults =>
    /\ eqTable["aa"] = "true"
    /\ eqTable["ab"] = eqTable["ba"]
    /\ (eqTable["ab"] = "true" /\ eqTable["bc"] = "true") => eqTable["ac"] = "true"

\* C26: from SetInsertPointBefore(X) until the next SetInsertPoint or
\* SetInsertPointBefore, after every builder operation the cursor index lies
\* within the current block's sequence and the instruction at it is X.
C26_CursorStaysOnX ==
  anchor.X # Nil =>
    /\ 0 <= insertPoint
    /\ insertPoint < Len(blocks[currentBlock].Instructions)
    /\ blocks[currentBlock].Instructions[insertPoint + 1] = anchor.X

\* C26 witness: two instructions were inserted before X, which stood first in
\* its block, and the cursor, now 2, is still on X.
C26_Witness ==
  /\ anchor.X # Nil
  /\ anchor.old[1] = anchor.X
  /\ Len(anchor.issued) = 2
  /\ insertPoint = 2
  /\ blocks[currentBlock].Instructions[3] = anchor.X

\* The adjacency lists of every block other than P and T are as before.
OtherEdgesKept(P, T) ==
  \A b \in BlockIds :
    /\ b # P => blocks'[b].Successors = blocks[b].Successors
    /\ b # T => blocks'[b].Predecessors = blocks[b].Predecessors

\* C27: AddCase(sw, v, blk) appends (v, blk) to sw's cases, blk to the
\* successors of the block that owns sw and that block to blk's predecessors,
\* wherever the cursor is, and leaves the current block, current function,
\* cursor position and naming counter unchanged.
C27_AddCaseOnOwner ==
  [][last'.op = "AddCase" =>
       \E sw \in InstIds :
         LET new == insts'[sw].Cases
             P == insts[sw].Parent_
             T == new[Len(new)].Block
         IN /\ Len(new) > 0
            /\ new = Append(insts[sw].Cases, new[Len(new)])
            /\ \A x \in InstIds : x # sw => insts'[x] = insts[x]
            /\ blocks'[P].Successors = Append(blocks[P].Successors, T)
            /\ blocks'[T].Predecessors = Append(blocks[T].Predecessors, P)
            /\ OtherEdgesKept(P, T)
            /\ UNCHANGED builderVars]_vars

\* C27 witness: the switch stands in block 1, the cursor has moved to block 2,
\* and the case added then is recorded on block 1.
C27_Witness ==
  /\ last.op = "AddCase"
  /\ Len(insts) = 1
  /\ insts[1].Op = "OpSwitch"
  /\ insts[1].Parent_ = 1
  /\ currentBlock = 2
  /\ blocks[1].Successors = <<1, 2>>
  /\ blocks[2].Successors = <<>>
  /\ blocks[2].Predecessors = <<1>>

\* C28: DeclareFunction leaves the current function, current block, cursor
\* position and naming counter unchanged; CreateFunction changes the current
\* function only; an instruction created right after CreateFunction is inserted
\* into the block that was current before it.
C28_FactoriesKeepCursor ==
  [][/\ last'.op = "DeclareFunction" => UNCHANGED builderVars
     /\ last'.op = "CreateFunction" =>
          /\ currentFunc' = Len(funcs')
          /\ UNCHANGED <<currentBlock, insertPoint, nameCounter>>
     /\ (last.op = "CreateFunction" /\ last'.op = "CreateRet" /\ ~last'.panic) =>
          /\ insts'[Len(insts')].Parent_ = currentBlock
          /\ blocks'[currentBlock].Instructions =
               Append(blocks[currentBlock].Instructions, Len(insts'))]_vars

\* C28 witness: the cursor was put in a block of the first function, the
\* second function was created, and the return built next stands in that block.
C28_Witness ==
  /\ last.op = "CreateRet"
  /\ Len(insts) = 1
  /\ insts[1].Parent_ = 1
  /\ blocks[1].Parent = 1
  /\ blocks[1].Instructions = <<1>>
  /\ currentFunc = 2
  /\ funcs[2].Blocks = <<>>

\* C29: for every pair of blocks S and T, T stands in S.Successors as many
\* times as S stands in T.Predecessors.
C29_EdgeSymmetry ==
  \A S, T \in BlockIds :
    Count(T, blocks[S].Successors) = Count(S, blocks[T].Predecessors)

\* C29 witness: a conditional branch in block 1 whose two targets are both
\* block 2, then a branch from block 2 back to block 1.
C29_Witness ==
  /\ Len(insts) = 2
  /\ insts[1].Op = "OpCondBr"
  /\ insts[2].Op = "OpBr"
  /\ blocks[1].Successors = <<2, 2>>
  /\ blocks[2].Predecessors = <<1, 1>>
  /\ blocks[2].Successors = <<1>>
  /\ blocks[1].Predecessors = <<2>>

\* The instruction the step has just built is a call of void type.
BuiltVoidCall ==
  /\ ~last'.panic
  /\ insts'[Len(insts')].Op = "OpCall"
  /\ insts'[Len(insts')].ValType = VoidT

\* C30: the naming counter moves only when an instruction that produces a
\* result is created with an empty name: the terminator constructors, AddCase,
\* CreateStore, the constant constructors, the cursor and factory operations,
\* and a call of void type created with an empty name leave it as it was, and
\* such a void call keeps the empty name.
C30_OnlyNamedResultsCount ==
  [][/\ nameCounter' # nameCounter =>
          /\ last'.op \in {"CreateNamed", "CreateCallByName"}
          /\ last'.name = ""
          /\ nameCounter' = nameCounter + 1
          /\ (last'.op = "CreateCallByName" /\ ~last'.panic) =>
               insts'[Len(insts')].ValType # VoidT
     /\ (last'.op = "CreateCallByName" /\ last'.name = "" /\ BuiltVoidCall) =>
          /\ nameCounter' = nameCounter
          /\ insts'[Len(insts')].ValName = ""]_vars

\* C30 witness: after an automatically named add, a void call was created
\* with an empty name; it has no name and the counter still reads 1.
C30_Witness ==
  /\ Len(insts) = 2
  /\ insts[1].ValName = "0"
  /\ insts[2].Op = "OpCall"
  /\ insts[2].ValType = VoidT
  /\ insts[2].ValName = ""
  /\ last.op = "CreateCallByName"
  /\ last.name = ""
  /\ nameCounter = 1

====
